---- MODULE Spec2Model ----
(***************************************************************************)
(* Zurich tax deduction questionnaire and budget optimizer (src/Main.py).  *)
(*                                                                         *)
(* The program is a Streamlit script with one piece of persistent state,   *)
(* st.session_state["estimate"], written by the questionnaire submit       *)
(* ("Save & Estimate") and read by the optimizer ("Run Optimizer").        *)
(*                                                                         *)
(* Money.  Python computes with IEEE doubles.  The model computes with     *)
(* exact decimal fixed point: a value is a pair <<w, f>> standing for      *)
(* w + f / FxD francs with 0 <= f < FxD (floor representation, w may be    *)
(* negative).  Every product by a decimal constant of the program is exact *)
(* on whole-franc and whole-centime amounts up to the church tax step; the *)
(* only rounding the model performs itself is Python's round(x, 2).        *)
(***************************************************************************)
EXTENDS Integers, Sequences, FiniteSets, TLC

VARIABLES
    form,       \* the questionnaire values of the last submit (form "qform")
    calc,       \* what the last submit computed and rendered in tab 1
    estimate,   \* st.session_state["estimate"], or NoEstimate
    opt,        \* what the last rerun rendered in tab 2
    probe       \* inputs and outputs of a function applied on its own

vars == <<form, calc, estimate, opt, probe>>

----------------------------------------------------------------------------
(* Fixed-point arithmetic standing for Python float arithmetic.            *)

Min(a, b) == IF a < b THEN a ELSE b

FxD == 10^8

Fx(w, f) == <<w + (f \div FxD), f % FxD>>

FxInt(n) == <<n, 0>>

FxZero == <<0, 0>>

FxAdd(a, b) == Fx(a[1] + b[1], a[2] + b[2])

FxSub(a, b) == Fx(a[1] - b[1], a[2] - b[2])

FxLt(a, b) == a[1] < b[1] \/ (a[1] = b[1] /\ a[2] < b[2])

FxLeq(a, b) == a[1] < b[1] \/ (a[1] = b[1] /\ a[2] <= b[2])

FxMax(a, b) == IF FxLt(a, b) THEN b ELSE a

FxMin(a, b) == IF FxLt(b, a) THEN b ELSE a

\* a * (r[1] / r[2]) for a decimal constant r = <<numerator, denominator>>
\* whose denominator divides FxD; floor of the exact product at 1/FxD.
FxMulRat(a, r) ==
    LET wn == a[1] * r[1]
        q  == wn \div r[2]
        m  == wn % r[2]
        fq == a[2] \div r[2]
        fr == a[2] % r[2]
    IN  Fx(q, m * (FxD \div r[2]) + fq * r[1] + ((fr * r[1]) \div r[2]))

\* r / k for a decimal constant r
RatDiv(r, k) == <<r[1], r[2] * k>>

\* Python round(x, 2): to the nearest centime, ties to the even centime.
Round2(a) ==
    LET unit == FxD \div 100
        c    == a[2] \div unit
        rest == a[2] % unit
        up   == (2 * rest > unit) \/ (2 * rest = unit /\ c % 2 = 1)
    IN  Fx(a[1], (IF up THEN c + 1 ELSE c) * unit)

----------------------------------------------------------------------------
(* Tax helper functions, src/Main.py lines 13-61.                          *)

\* The last bracket's upper bound is 10**12 in the source; it is clipped to
\* the largest integer the checker computes with.  No amount of the model
\* comes near either.
TopBracketHigh == 2147483647

\* Each bracket is <<low, high, base, pct>>, pct a decimal constant.
ZURICH_BASIC_BRACKETS ==
    << <<0, 6900, 0, <<0, 100>> >>,
       <<6900, 11800, 0, <<2, 100>> >>,
       <<11800, 16600, 98, <<3, 100>> >>,
       <<16600, 24500, 242, <<4, 100>> >>,
       <<24500, 34100, 558, <<5, 100>> >>,
       <<34100, 45100, 1038, <<6, 100>> >>,
       <<45100, 58000, 1698, <<7, 100>> >>,
       <<58000, 75400, 2601, <<8, 100>> >>,
       <<75400, 109000, 3993, <<9, 100>> >>,
       <<109000, 142200, 7017, <<10, 100>> >>,
       <<142200, 194900, 10337, <<11, 100>> >>,
       <<194900, 263300, 16134, <<12, 100>> >>,
       <<263300, TopBracketHigh, 24342, <<13, 100>> >> >>

FEDERAL_BRACKETS ==
    << <<0, 14700, 0, <<0, 100>> >>,
       <<14700, 31500, 0, <<1, 100>> >>,
       <<31500, 41400, 168, <<2, 100>> >>,
       <<41400, 52400, 384, <<3, 100>> >>,
       <<52400, 75500, 714, <<4, 100>> >>,
       <<75500, 103600, 1582, <<55, 1000>> >>,
       <<103600, 134600, 3100, <<65, 1000>> >>,
       <<134600, 176000, 5140, <<75, 1000>> >>,
       <<176000, 755000, 8360, <<85, 1000>> >>,
       <<755000, TopBracketHigh, 54860, <<95, 1000>> >> >>

\* BracketScan with the loop falling through to the last bracket's formula
\* when no bracket matched, in place of "return 0.0".
RECURSIVE BracketScanFallsThrough(_, _, _)
BracketScanFallsThrough(table, i, x) ==
    LET low  == FxInt(table[Min(i, Len(table))][1])
        high == FxInt(table[Min(i, Len(table))][2])
        base == FxInt(table[Min(i, Len(table))][3])
        pct  == table[Min(i, Len(table))][4]
    IN  IF i > Len(table) \/ (FxLt(low, x) /\ FxLeq(x, high))
        THEN FxAdd(base, FxMulRat(FxSub(x, low), pct))
        ELSE BracketScanFallsThrough(table, i + 1, x)

\* The body of the two evaluators' loop: the first bracket, in table order,
\* with x > low and x <= high decides; when none does the result is 0.0.
RECURSIVE BracketScan(_, _, _)
BracketScan(table, i, x) ==
    IF i > Len(table) THEN FxZero
    ELSE LET low  == FxInt(table[i][1])
             high == FxInt(table[i][2])
             base == FxInt(table[i][3])
             pct  == table[i][4]
         IN  IF FxLt(low, x) /\ FxLeq(x, high)
             THEN FxAdd(base, FxMulRat(FxSub(x, low), pct))
             ELSE BracketScan(table, i + 1, x)

zurich_basic_tax(taxable_income_chf) ==
    LET x == FxMax(FxZero, taxable_income_chf)
    IN  BracketScan(ZURICH_BASIC_BRACKETS, 1, x)

federal_tax(taxable_income_chf) ==
    LET x == FxMax(FxZero, taxable_income_chf)
    IN  BracketScan(FEDERAL_BRACKETS, 1, x)

----------------------------------------------------------------------------
(* Municipality defaults and Pillar 3a caps, src/Main.py lines 64-80.      *)

MunicipalityNames ==
    {"Zurich City", "Kloten", "Opfikon", "Winterthur", "Uster", "Duebendorf"}

MUNICIPALITIES ==
    [m \in MunicipalityNames |->
        [commune_multiplier |->
            CASE m = "Zurich City" -> <<119, 100>>
              [] m = "Kloten"      -> <<110, 100>>
              [] m = "Opfikon"     -> <<112, 100>>
              [] m = "Winterthur"  -> <<118, 100>>
              [] m = "Uster"       -> <<116, 100>>
              [] m = "Duebendorf"  -> <<117, 100>>,
         church_tax_percent |-> <<50, 100>>]]

PILLAR3A_CAP_EMPLOYED == 7056

PILLAR3A_CAP_SELFEMPLOYED_PERCENT == <<20, 100>>

----------------------------------------------------------------------------
(* Tab 1: the questionnaire, src/Main.py lines 90-222.  A form holds the   *)
(* values the widgets hand to the script; amounts are whole francs.        *)

\* The values the widgets start with (their value= arguments).
DefaultForm ==
    [municipality |-> "Zurich City",
     marital_status |-> "Single",
     has_children |-> "No",
     dependents |-> <<>>,
     salary |-> 80000,
     other_income |-> 0,
     foreign_income |-> 0,
     benefits |-> 0,
     commute_mode |-> "Public transport",
     commute_km_oneway |-> 10,
     work_days_per_week |-> 5,
     home_office |-> "No",
     ho_area |-> 0,
     total_area |-> 0,
     business_travel_costs |-> 0,
     employment_type |-> "Employee with pension fund",
     pillar2_contrib |-> 12000,
     pillar3a_current |-> 0,
     private_insurance_premiums |-> 300,
     unreimbursed_medical |-> 0,
     disability_costs |-> 0,
     home_help_costs |-> 0,
     childcare_costs |-> 0,
     training_costs |-> 0,
     children_school_fees |-> 0,
     rent_paid |-> 24000,
     mortgage_interest |-> 0,
     home_maintenance |-> 0,
     energy_efficiency_costs |-> 0,
     charitable |-> 0,
     union_fees |-> 0,
     legal_expenses |-> 0,
     moving_costs |-> 0,
     municipal_fees |-> 0,
     foreign_taxes |-> 0,
     berufskosten |-> 2400,
     vermoegensverwaltung |-> 0,
     health_insurance |-> 2900,
     child_deduction |-> 0,
     net_income_override |-> 0]

\* The cap the health insurance widget puts on its value (max_value=).
default_health_total(f) ==
    LET max_health_adult == 2900
        max_health_child == 1300
        adults == IF f.marital_status = "Married / Registered partnership"
                  THEN 2 ELSE 1
    IN  adults * max_health_adult
        + (IF f.has_children = "Yes"
           THEN Len(f.dependents) * max_health_child ELSE 0)

\* What the widgets accept: min_value/max_value of each number_input and
\* the rows the dependents loop builds.
WidgetsAccept(f) ==
    /\ f.health_insurance <= default_health_total(f)
    /\ f.work_days_per_week \in 1..7
    /\ (f.has_children = "Yes") <=> (Len(f.dependents) \in 1..10)
    /\ IF f.home_office = "Yes"
       THEN f.ho_area >= 1 /\ f.total_area >= 10
       ELSE f.ho_area = 0 /\ f.total_area = 0

----------------------------------------------------------------------------
(* Tab 1: "Save & Estimate", src/Main.py lines 228-386.                    *)

pillar3a_cap(f) ==
    LET gross_income == f.salary + f.other_income + f.foreign_income
    IN  IF f.employment_type = "Employee with pension fund"
        THEN FxInt(PILLAR3A_CAP_EMPLOYED)
        ELSE FxMax(FxZero, FxMulRat(FxInt(gross_income),
                                    PILLAR3A_CAP_SELFEMPLOYED_PERCENT))

pillar3a_warning(f) == FxLt(pillar3a_cap(f), FxInt(f.pillar3a_current))

\* pillar3a_used taking the declared amount whatever the cap.
pillar3a_used_Declared(f) == FxInt(f.pillar3a_current)

pillar3a_used(f) ==
    IF pillar3a_warning(f) THEN pillar3a_cap(f) ELSE FxInt(f.pillar3a_current)

commute_ded(f) ==
    LET work_days_year    == f.work_days_per_week * 52
        daily_commute_km  == f.commute_km_oneway * 2
        annual_commute_km == FxInt(daily_commute_km * work_days_year)
    IN  CASE f.commute_mode = "Car" ->
                FxMin(FxMulRat(annual_commute_km, <<7, 10>>), FxInt(3000))
          [] f.commute_mode = "Bike / Walk" ->
                FxMin(FxMulRat(annual_commute_km, <<2, 10>>), FxInt(1000))
          [] f.commute_mode = "Mixed" ->
                FxMin(FxMulRat(annual_commute_km, <<35, 100>>), FxInt(2500))
          [] OTHER -> FxZero

\* round(ho_area / total_area * rent_paid * 0.4, 2), the quotient taken
\* exactly: centimes = ho_area * rent_paid * 40 / total_area, rounded to
\* the nearest centime, ties to even.
ho_ded_rounded(f) ==
    LET num  == f.ho_area * f.rent_paid * 40
        c    == num \div f.total_area
        rest == num % f.total_area
        up   == (2 * rest > f.total_area)
                \/ (2 * rest = f.total_area /\ c % 2 = 1)
        cents == IF up THEN c + 1 ELSE c
    IN  Fx(cents \div 100, (cents % 100) * (FxD \div 100))

RECURSIVE SumInts(_)
SumInts(s) == IF s = <<>> THEN 0 ELSE Head(s) + SumInts(Tail(s))

\* One "if amount > 0: deductions[label] = round(amount, 2)" statement.
Entry(label, amount) ==
    IF FxLt(FxZero, amount) THEN << <<label, Round2(amount)>> >> ELSE <<>>

\* The deductions dict, as its items in insertion order.
deductions(f) ==
    Entry("Commute (approx)", commute_ded(f))
    \o (IF f.home_office = "Yes" /\ f.total_area > 0
        THEN << <<"Home office (pro rata)", ho_ded_rounded(f)>> >> ELSE <<>>)
    \o Entry("Pillar 3a (used, capped)", pillar3a_used(f))
    \o Entry("Pillar 2 (mandatory)", FxInt(f.pillar2_contrib))
    \o Entry("Private insurance premiums (entered, usually not deductible)",
             FxInt(f.private_insurance_premiums))
    \o Entry("Unreimbursed medical", FxInt(f.unreimbursed_medical))
    \o Entry("Disability / special care", FxInt(f.disability_costs))
    \o Entry("Home help / nursing care", FxInt(f.home_help_costs))
    \o Entry("Childcare costs", FxInt(f.childcare_costs))
    \o Entry("Further training", FxInt(f.training_costs))
    \o Entry("Children school fees", FxInt(f.children_school_fees))
    \o Entry("Rent (info for pro rata HO)", FxInt(f.rent_paid))
    \o Entry("Mortgage interest", FxInt(f.mortgage_interest))
    \o Entry("Home maintenance", FxInt(f.home_maintenance))
    \o Entry("Energy improvements", FxInt(f.energy_efficiency_costs))
    \o Entry("Charitable donations", FxInt(f.charitable))
    \o Entry("Union / professional fees", FxInt(f.union_fees))
    \o Entry("Legal expenses", FxInt(f.legal_expenses))
    \o Entry("Moving costs", FxInt(f.moving_costs))
    \o Entry("Municipal fees", FxInt(f.municipal_fees))
    \o Entry("Foreign taxes paid", FxInt(f.foreign_taxes))
    \o Entry("Business travel & overnight", FxInt(f.business_travel_costs))
    \o Entry("Berufskosten Pauschale", FxInt(f.berufskosten))
    \o Entry("Vermoegensverwaltungskosten (Pausschale 0.3%)",
             FxInt(f.vermoegensverwaltung))
    \o Entry("Health insurance premiums (capped)", FxInt(f.health_insurance))
    \o Entry("Child deduction", FxInt(f.child_deduction))
    \o Entry("Dependent support (declared)", FxInt(SumInts(f.dependents)))

\* sum(deductions.values())
RECURSIVE SumValues(_)
SumValues(items) ==
    IF items = <<>> THEN FxZero
    ELSE FxAdd(Head(items)[2], SumValues(Tail(items)))

total_deductions(f) == SumValues(deductions(f))

total_income(f) ==
    FxInt(f.salary + f.other_income + f.foreign_income + f.benefits)

\* taxable_income without the floor at zero.
taxable_income_NoFloor(f) ==
    IF f.net_income_override > 0
    THEN FxInt(f.net_income_override)
    ELSE FxSub(total_income(f), total_deductions(f))

taxable_income(f) ==
    IF f.net_income_override > 0
    THEN FxInt(f.net_income_override)
    ELSE FxMax(FxZero, FxSub(total_income(f), total_deductions(f)))

canton_factor == <<98, 100>>

\* TaxEstimate with the canton factor left out of the cantonal tax.
TaxEstimate_NoCantonFactor(ti, commune_multiplier, church_percent) ==
    LET basic_tax    == zurich_basic_tax(ti)
        cantonal_tax == FxMulRat(basic_tax, commune_multiplier)
        church_tax   == FxMulRat(cantonal_tax, RatDiv(church_percent, 100))
        federal      == federal_tax(ti)
    IN  [basic_tax    |-> basic_tax,
         cantonal_tax |-> cantonal_tax,
         church_tax   |-> church_tax,
         federal      |-> federal,
         total_tax    |-> FxAdd(FxAdd(cantonal_tax, church_tax), federal)]

\* Canton/commune/federal tax of the questionnaire, lines 343-349.
TaxEstimate(ti, commune_multiplier, church_percent) ==
    LET basic_tax    == zurich_basic_tax(ti)
        cantonal_tax == FxMulRat(FxMulRat(basic_tax, canton_factor),
                                 commune_multiplier)
        church_tax   == FxMulRat(cantonal_tax, RatDiv(church_percent, 100))
        federal      == federal_tax(ti)
    IN  [basic_tax    |-> basic_tax,
         cantonal_tax |-> cantonal_tax,
         church_tax   |-> church_tax,
         federal      |-> federal,
         total_tax    |-> FxAdd(FxAdd(cantonal_tax, church_tax), federal)]

NoEstimate == [saved |-> FALSE]

\* The dict stored under st.session_state["estimate"], lines 373-386.
SavedEstimate(f) ==
    LET muni_info == MUNICIPALITIES[f.municipality]
        ti  == taxable_income(f)
        tax == TaxEstimate(ti, muni_info.commune_multiplier,
                           muni_info.church_tax_percent)
    IN  [saved              |-> TRUE,
         taxable_income     |-> ti,
         total_tax          |-> tax.total_tax,
         basic_tax          |-> tax.basic_tax,
         cantonal_tax       |-> tax.cantonal_tax,
         federal            |-> tax.federal,
         commune_multiplier |-> muni_info.commune_multiplier,
         church_percent     |-> muni_info.church_tax_percent,
         canton_factor      |-> canton_factor,
         total_income       |-> total_income(f),
         total_deductions   |-> total_deductions(f),
         pillar3a_current   |-> pillar3a_used(f),
         pillar3a_cap       |-> pillar3a_cap(f)]

NotSubmitted == [submitted |-> FALSE]

\* What tab 1 renders after a submit, lines 241-243 and 351-370.
Rendered(f) ==
    LET muni_info == MUNICIPALITIES[f.municipality]
        tax == TaxEstimate(taxable_income(f), muni_info.commune_multiplier,
                           muni_info.church_tax_percent)
    IN  [submitted        |-> TRUE,
         pillar3a_warned  |-> pillar3a_warning(f),
         deductions       |-> deductions(f),
         total_deductions |-> total_deductions(f),
         total_income     |-> total_income(f),
         taxable_income   |-> taxable_income(f),
         basic_tax        |-> tax.basic_tax,
         cantonal_tax     |-> tax.cantonal_tax,
         church_tax       |-> tax.church_tax,
         federal          |-> tax.federal,
         total_tax        |-> tax.total_tax]

----------------------------------------------------------------------------
(* Tab 2: the optimizer, src/Main.py lines 391-484.                        *)

step == 100

\* The four checkboxes, in the order "selected" lists them (line 407).
ChannelOrder == <<"Pillar 3a", "Pillar 2", "Donations", "Moving">>

Channels == {ChannelOrder[i] : i \in 1..Len(ChannelOrder)}

selected(ticked) == SelectSeq(ChannelOrder, LAMBDA k : k \in ticked)

remaining_pillar3a(est) ==
    FxMax(FxZero, FxSub(est.pillar3a_cap, est.pillar3a_current))

\* max_alloc with the Pillar 3a branch missing: every channel gets the
\* whole budget.
max_alloc_NoCap(est, cat, max_budget) == FxInt(max_budget)

max_alloc(est, cat, max_budget) ==
    IF cat = "Pillar 3a"
    THEN FxMin(remaining_pillar3a(est), FxInt(max_budget))
    ELSE FxInt(max_budget)

\* arange_upto without the end point: the multiples of step below stop.
arange_upto_Exclusive(stop) ==
    [k \in 1..(IF stop[2] = 0 /\ stop[1] % step = 0
               THEN stop[1] \div step
               ELSE (stop[1] \div step) + 1) |-> (k - 1) * step]

\* list(np.arange(0, stop + 1e-9, step).astype(int)) for stop >= 0: the
\* multiples of step below stop + 1e-9, which for a stop on the 1/FxD grid
\* are the multiples of step that are <= stop.
arange_upto(stop) ==
    [k \in 1..((stop[1] \div step) + 1) |-> (k - 1) * step]

\* alloc_ranges, as the lists of the selected categories in their order.
alloc_ranges(est, sel, max_budget) ==
    [i \in 1..Len(sel) |-> arange_upto(max_alloc(est, sel[i], max_budget))]

RECURSIVE ProdLens(_)
ProdLens(ranges) ==
    IF ranges = <<>> THEN 1 ELSE Len(Head(ranges)) * ProdLens(Tail(ranges))

\* int(np.prod(counts)) if counts else 0
total_combinations(ranges) == IF ranges = <<>> THEN 0 ELSE ProdLens(ranges)

MAX_COMBINATIONS == 200000

\* too_many refusing at the ceiling itself.
too_many_AtCeiling(ranges) == total_combinations(ranges) >= MAX_COMBINATIONS

too_many(ranges) == total_combinations(ranges) > MAX_COMBINATIONS

\* itertools.product(*ranges): the tuples in the order it yields them, the
\* last position varying fastest.
RECURSIVE Product(_)
Product(ranges) ==
    IF ranges = <<>> THEN << <<>> >>
    ELSE LET h    == Head(ranges)
             rest == Product(Tail(ranges))
             n    == Len(rest)
         IN  [i \in 1..(Len(h) * n) |->
                 <<h[((i - 1) \div n) + 1]>> \o rest[((i - 1) % n) + 1]]

calc_total_tax_from_ti(est, ti) ==
    LET basic == zurich_basic_tax(ti)
        cant  == FxMulRat(FxMulRat(basic, est.canton_factor),
                          est.commune_multiplier)
        ch    == FxMulRat(cant, RatDiv(est.church_percent, 100))
        fed   == federal_tax(ti)
    IN  FxAdd(FxAdd(cant, ch), fed)

\* Kept without the "extra == 0" test.
Kept_NoZeroTest(extra, max_budget) == ~(extra > max_budget)

\* The two "continue" tests of the loop, lines 449-452.  max_budget + 1e-9
\* is compared with a whole number, so the epsilon decides nothing.
Kept(extra, max_budget) == ~(extra = 0) /\ ~(extra > max_budget)

\* One row of results, lines 454-464.
Row(est, sel, combo) ==
    LET extra     == SumInts(combo)
        new_ti    == FxMax(FxZero, FxSub(est.taxable_income, FxInt(extra)))
        new_tax   == calc_total_tax_from_ti(est, new_ti)
        tax_saved == FxSub(est.total_tax, new_tax)
    IN  [Allocation |-> [k \in {sel[i] : i \in 1..Len(sel)} |->
                            combo[CHOOSE i \in 1..Len(sel) : sel[i] = k]],
         Extra      |-> extra,
         Tax_saved  |-> tax_saved,
         Net_cost   |-> FxSub(FxInt(extra), tax_saved),
         Tax_after  |-> new_tax]

\* The loop over the product, lines 446-464: a row for every tuple the two
\* tests keep, in the order of the enumeration.
Collect(est, sel, max_budget, combos) ==
    LET kept == SelectSeq(combos, LAMBDA c : Kept(SumInts(c), max_budget))
    IN  [i \in 1..Len(kept) |-> Row(est, sel, kept[i])]

\* sort_values leaving the rows in the order of the enumeration.
sort_values_Unsorted(rows) == rows

\* df.sort_values(by="Net cost").reset_index(drop=True): ascending by net
\* cost.  Rows of equal net cost keep the order of the enumeration here;
\* pandas fixes some order for them and no property below depends on which.
sort_values(rows) ==
    LET n == Len(rows)
        Before(k, j) ==
            \/ FxLt(rows[k].Net_cost, rows[j].Net_cost)
            \/ (rows[k].Net_cost = rows[j].Net_cost /\ k < j)
        Place(j) == 1 + Cardinality({k \in 1..n : Before(k, j)})
    IN  [i \in 1..n |-> rows[CHOOSE j \in 1..n : Place(j) = i]]

\* What tab 2 shows after "Run Optimizer", lines 412-484.
OptimizerOutput(est, ticked, max_budget) ==
    LET sel    == selected(ticked)
        ranges == alloc_ranges(est, sel, max_budget)
    IN  IF too_many(ranges)
        THEN [status |-> "too_many", max_budget |-> max_budget,
              ticked |-> ticked, df_sorted |-> <<>>]
        ELSE LET results == Collect(est, sel, max_budget, Product(ranges))
             IN  IF results = <<>>
                 THEN [status |-> "no_feasible", max_budget |-> max_budget,
                       ticked |-> ticked, df_sorted |-> <<>>]
                 ELSE LET df_sorted == sort_values(results)
                      IN  [status |-> "ranked", max_budget |-> max_budget,
                           ticked |-> ticked, df_sorted |-> df_sorted,
                           top_n |-> Min(10, Len(df_sorted)),
                           best |-> df_sorted[1]]

----------------------------------------------------------------------------
(* The session: reruns of the script.                                      *)

NoProbe == [fn |-> "none"]

\* Tab 2 before any estimate is saved (line 395), and with its widgets
\* shown and the button not pressed.
NeedEstimate == [status |-> "need_estimate"]

Idle == [status |-> "idle"]

NothingSelected == [status |-> "nothing_selected"]

\* A form differing from f in the fields the edit lists.
RECURSIVE Edited(_, _)
Edited(f, e) ==
    IF e = <<>> THEN f
    ELSE Edited([f EXCEPT ![Head(e)[1]] = Head(e)[2]], Tail(e))

\* Bounds of the session model: budgets are the multiples of BudgetGrain up
\* to MaxBudgetUnits of them.
BudgetGrain == 50

MaxBudgetUnits == 6

Budgets == {k * BudgetGrain : k \in 0..MaxBudgetUnits}

\* A budget and a selection whose search space is over the ceiling.
LargeBudget == 5900

NonEmptySelections == (SUBSET Channels) \ {{}}

Requests ==
    (NonEmptySelections \X Budgets)
    \cup {<<{"Pillar 2", "Donations", "Moving"}, LargeBudget>>,
          <<Channels, LargeBudget>>}

\* The questionnaires submitted in the session model.
SessionEdits ==
    { <<>>,
      << <<"net_income_override", 80000>> >>,
      << <<"net_income_override", 75600>> >>,
      << <<"salary", 0>>, <<"pillar2_contrib", 0>> >>,
      << <<"pillar3a_current", 6956>> >>,
      << <<"pillar3a_current", 8000>>, <<"municipality", "Kloten">> >>,
      << <<"employment_type", "Self-employed or employee w/o pension fund">>,
         <<"salary", 30000>>, <<"pillar2_contrib", 0>>,
         <<"pillar3a_current", 5850>>, <<"rent_paid", 0>> >>,
      << <<"salary", 120000>>, <<"charitable", 500>>,
         <<"municipality", "Uster">> >> }

SessionForms == {Edited(DefaultForm, e) : e \in SessionEdits}

Init ==
    /\ form = DefaultForm
    /\ calc = NotSubmitted
    /\ estimate = NoEstimate
    /\ opt = NeedEstimate
    /\ probe = NoProbe

\* "Save & Estimate" pressed with the form holding f.
Submit(f) ==
    /\ WidgetsAccept(f)
    /\ form' = f
    /\ calc' = Rendered(f)
    /\ estimate' = SavedEstimate(f)
    /\ opt' = Idle
    /\ UNCHANGED probe

\* RunOptimizer writing the budget spent back into the saved estimate.
RunOptimizer_SavesResult(ticked, max_budget) ==
    /\ estimate.saved
    /\ ticked # {}
    /\ opt' = OptimizerOutput(estimate, ticked, max_budget)
    /\ calc' = NotSubmitted
    /\ estimate' = [estimate EXCEPT
                       !.taxable_income =
                           FxMax(FxZero, FxSub(@, FxInt(max_budget)))]
    /\ UNCHANGED <<form, probe>>

\* "Run Optimizer" pressed; the button exists only with an estimate saved
\* and a channel ticked.
RunOptimizer(ticked, max_budget) ==
    /\ estimate.saved
    /\ ticked # {}
    /\ opt' = OptimizerOutput(estimate, ticked, max_budget)
    /\ calc' = NotSubmitted
    /\ UNCHANGED <<form, estimate, probe>>

\* A tab 2 widget changed and the script reran without the button pressed.
ChangeWidgets(ticked) ==
    /\ estimate.saved
    /\ opt' = IF ticked = {} THEN NothingSelected ELSE Idle
    /\ calc' = NotSubmitted
    /\ UNCHANGED <<form, estimate, probe>>

Next ==
    \/ \E f \in SessionForms : Submit(f)
    \/ \E r \in Requests : RunOptimizer(r[1], r[2])
    \/ \E ticked \in SUBSET Channels : ChangeWidgets(ticked)

Spec == Init /\ [][Next]_vars

----------------------------------------------------------------------------
(* The tax functions applied on their own: two taxable incomes and a       *)
(* municipality are drawn, and every tax function is applied to both.      *)

\* Bounds: the incomes drawn are the bracket bounds of both tables, the
\* franc after each, the multiples of IncomeGrid up to MaxIncomeUnits of
\* them, and a few incomes at and below zero.
IncomeGrid == 10000

MaxIncomeUnits == 80

NegativeIncome == 1000

BracketBounds ==
    {ZURICH_BASIC_BRACKETS[i][1] : i \in 1..Len(ZURICH_BASIC_BRACKETS)}
    \cup {FEDERAL_BRACKETS[i][1] : i \in 1..Len(FEDERAL_BRACKETS)}

TaxIncomes ==
    {-NegativeIncome, -1}
    \cup {b + d : b \in BracketBounds, d \in 0..1}
    \cup {k * IncomeGrid : k \in 0..MaxIncomeUnits}

\* The fields of a saved estimate that calc_total_tax_from_ti reads.
RatesOf(m) ==
    [canton_factor      |-> canton_factor,
     commune_multiplier |-> MUNICIPALITIES[m].commune_multiplier,
     church_percent     |-> MUNICIPALITIES[m].church_tax_percent]

\* Every tax function of the program at taxable income ti.
TaxesAt(ti, m) ==
    [zurich_basic_tax |-> zurich_basic_tax(FxInt(ti)),
     federal_tax      |-> federal_tax(FxInt(ti)),
     estimate         |-> TaxEstimate(FxInt(ti),
                                      MUNICIPALITIES[m].commune_multiplier,
                                      MUNICIPALITIES[m].church_tax_percent),
     total            |-> calc_total_tax_from_ti(RatesOf(m), FxInt(ti))]

Quiet ==
    /\ form = DefaultForm
    /\ calc = NotSubmitted
    /\ estimate = NoEstimate
    /\ opt = NeedEstimate

TaxInit ==
    /\ Quiet
    /\ \E a \in TaxIncomes, m \in MunicipalityNames :
          \E b \in {x \in TaxIncomes : x >= a} :
             probe = [fn |-> "tax", done |-> FALSE, ti1 |-> a, ti2 |-> b,
                      municipality |-> m]

EvaluateTax ==
    /\ probe.fn = "tax"
    /\ ~probe.done
    /\ probe' = [fn |-> "tax", done |-> TRUE,
                 ti1 |-> probe.ti1, ti2 |-> probe.ti2,
                 municipality |-> probe.municipality,
                 at1 |-> TaxesAt(probe.ti1, probe.municipality),
                 at2 |-> TaxesAt(probe.ti2, probe.municipality)]
    /\ UNCHANGED <<form, calc, estimate, opt>>

TaxNext == EvaluateTax

TaxSpec == TaxInit /\ [][TaxNext]_vars

----------------------------------------------------------------------------
(* The optimizer's complexity check applied on its own (lines 413-433): a  *)
(* saved estimate, a selection and a budget are drawn, the allocation      *)
(* ranges are built and the check decides.  When it refuses, the probe     *)
(* holds everything tab 2 then shows; when it lets the search start, the   *)
(* probe holds the number of tuples the search is about to enumerate.      *)

\* Pillar 3a contributions that leave 7056, 2000, 1999, 1900, 1899 and 0
\* francs of the employee's allowance.
GuardContributions == {0, 5056, 5057, 5156, 5157, 7056}

GuardEstimates ==
    {SavedEstimate(Edited(DefaultForm, << <<"pillar3a_current", c>> >>)) :
        c \in GuardContributions}

GuardBudgets == {0, 100, 2000, 2100, 5700, 5800, 9800, 9900, 10000}

GuardInit ==
    /\ Quiet
    /\ probe \in {[fn |-> "guard", done |-> FALSE, est |-> e, ticked |-> t,
                   max_budget |-> b] :
                      e \in GuardEstimates,
                      t \in NonEmptySelections,
                      b \in GuardBudgets}

EvaluateGuard ==
    /\ probe.fn = "guard"
    /\ ~probe.done
    /\ LET ranges == alloc_ranges(probe.est, selected(probe.ticked),
                                  probe.max_budget)
       IN  probe' =
             [fn |-> "guard", done |-> TRUE, est |-> probe.est,
              ticked |-> probe.ticked, max_budget |-> probe.max_budget,
              counts |-> [i \in 1..Len(ranges) |-> Len(ranges[i])],
              output |->
                 IF too_many(ranges)
                 THEN OptimizerOutput(probe.est, probe.ticked,
                                      probe.max_budget)
                 ELSE [status |-> "search",
                       total_combinations |-> total_combinations(ranges)]]
    /\ UNCHANGED <<form, calc, estimate, opt>>

GuardNext == EvaluateGuard

GuardSpec == GuardInit /\ [][GuardNext]_vars

----------------------------------------------------------------------------
(* The questionnaire applied on its own: a form is filled in and submitted *)
(* once.  The forms differ from the widgets' defaults in up to two of the  *)
(* edits below.                                                            *)

SelfEmployed == "Self-employed or employee w/o pension fund"

QuestionnaireEdits ==
    { <<>>,
      << <<"municipality", "Kloten">> >>,
      << <<"municipality", "Winterthur">> >>,
      << <<"marital_status", "Married / Registered partnership">>,
         <<"health_insurance", 5800>> >>,
      << <<"has_children", "Yes">>, <<"dependents", <<0>> >>,
         <<"health_insurance", 4200>>, <<"child_deduction", 9400>> >>,
      << <<"has_children", "Yes">>, <<"dependents", <<2000, 1500>> >>,
         <<"child_deduction", 18800>> >>,
      << <<"salary", 0>> >>,
      << <<"salary", 30000>> >>,
      << <<"salary", 200000>> >>,
      << <<"other_income", 5000>> >>,
      << <<"foreign_income", 3000>> >>,
      << <<"benefits", 4000>> >>,
      << <<"commute_mode", "Car">> >>,
      << <<"commute_mode", "Car">>, <<"commute_km_oneway", 2>> >>,
      << <<"commute_mode", "Bike / Walk">>, <<"work_days_per_week", 3>>,
         <<"commute_km_oneway", 1>> >>,
      << <<"commute_mode", "Mixed">> >>,
      << <<"commute_mode", "Mixed">>, <<"commute_km_oneway", 0>> >>,
      << <<"home_office", "Yes">>, <<"ho_area", 10>>, <<"total_area", 80>> >>,
      << <<"home_office", "Yes">>, <<"ho_area", 10>>, <<"total_area", 70>> >>,
      << <<"business_travel_costs", 800>> >>,
      << <<"employment_type", SelfEmployed>> >>,
      << <<"employment_type", SelfEmployed>>, <<"pillar3a_current", 16001>> >>,
      << <<"employment_type", SelfEmployed>>, <<"salary", 30003>>,
         <<"pillar3a_current", 6001>> >>,
      << <<"pillar2_contrib", 0>> >>,
      << <<"pillar3a_current", 3000>> >>,
      << <<"pillar3a_current", 7056>> >>,
      << <<"pillar3a_current", 8000>> >>,
      << <<"private_insurance_premiums", 0>> >>,
      << <<"private_insurance_premiums", 1200>> >>,
      << <<"unreimbursed_medical", 700>> >>,
      << <<"disability_costs", 100>> >>,
      << <<"home_help_costs", 250>> >>,
      << <<"childcare_costs", 3000>> >>,
      << <<"training_costs", 1500>> >>,
      << <<"children_school_fees", 900>> >>,
      << <<"rent_paid", 0>> >>,
      << <<"rent_paid", 30000>> >>,
      << <<"mortgage_interest", 6000>> >>,
      << <<"home_maintenance", 1100>> >>,
      << <<"energy_efficiency_costs", 450>> >>,
      << <<"charitable", 500>> >>,
      << <<"union_fees", 120>> >>,
      << <<"legal_expenses", 60>> >>,
      << <<"moving_costs", 2000>> >>,
      << <<"municipal_fees", 75>> >>,
      << <<"foreign_taxes", 310>> >>,
      << <<"berufskosten", 0>> >>,
      << <<"berufskosten", 4000>> >>,
      << <<"vermoegensverwaltung", 150>> >>,
      << <<"health_insurance", 0>> >>,
      << <<"net_income_override", 1>> >>,
      << <<"net_income_override", 50000>> >>,
      << <<"net_income_override", 90000>> >> }

QuestionnaireForms ==
    {f \in {Edited(Edited(DefaultForm, e1), e2) :
                e1 \in QuestionnaireEdits, e2 \in QuestionnaireEdits} :
        WidgetsAccept(f)}

FormInit ==
    /\ form \in QuestionnaireForms
    /\ calc = NotSubmitted
    /\ estimate = NoEstimate
    /\ opt = NeedEstimate
    /\ probe = NoProbe

SubmitOnce ==
    /\ ~estimate.saved
    /\ Submit(form)

FormNext == SubmitOnce

FormSpec == FormInit /\ [][FormNext]_vars

----------------------------------------------------------------------------
(* Properties.                                                             *)

TaxEvaluated == probe.fn = "tax" /\ probe.done

\* An amount within 0.01 of francs + centimes / 100.
Near(a, francs, centimes) ==
    LET target == Fx(francs, centimes * (FxD \div 100))
        tol    == Fx(0, FxD \div 100)
    IN  FxLeq(FxSub(target, tol), a) /\ FxLeq(a, FxAdd(target, tol))

\* C1: bracket evaluation is monotone for both tables: for incomes
\* x1 < x2, zurich_basic_tax(x1) <= zurich_basic_tax(x2) and
\* federal_tax(x1) <= federal_tax(x2).
C1_BracketsMonotone ==
    (TaxEvaluated /\ probe.ti1 < probe.ti2)
        => /\ FxLeq(probe.at1.zurich_basic_tax, probe.at2.zurich_basic_tax)
           /\ FxLeq(probe.at1.federal_tax, probe.at2.federal_tax)

\* C2: no jump at a bracket boundary: in both tables the tax evaluated at
\* a bracket's upper bound equals the base amount of the next bracket.
C2_NoJumpAtBoundary ==
    TaxEvaluated
        => /\ \A i \in 1..(Len(ZURICH_BASIC_BRACKETS) - 1) :
                probe.ti1 = ZURICH_BASIC_BRACKETS[i][2]
                    => probe.at1.zurich_basic_tax
                         = FxInt(ZURICH_BASIC_BRACKETS[i + 1][3])
           /\ \A i \in 1..(Len(FEDERAL_BRACKETS) - 1) :
                probe.ti1 = FEDERAL_BRACKETS[i][2]
                    => probe.at1.federal_tax
                         = FxInt(FEDERAL_BRACKETS[i + 1][3])

\* C3: the total tax (cantonal + church + federal) is non-decreasing in
\* taxable income for every municipality of the catalog, as tab 1 computes
\* it and as the optimizer recomputes it.
C3_TotalMonotone ==
    (TaxEvaluated /\ probe.ti1 <= probe.ti2)
        => /\ FxLeq(probe.at1.estimate.total_tax,
                    probe.at2.estimate.total_tax)
           /\ FxLeq(probe.at1.total, probe.at2.total)

\* The questionnaire was submitted with taxable income 80000 in Zurich City.
C4_Scenario ==
    /\ calc.submitted
    /\ calc.taxable_income = FxInt(80000)
    /\ form.municipality = "Zurich City"
    /\ estimate.canton_factor = <<98, 100>>

\* C4, as stated: for taxable income 80000 in Zurich City the estimate is
\* basic 4407.00, cantonal+communal 5138.42, church 25.69, federal 1704.75
\* and total 6868.86, each within 0.01.
C4_AsStated ==
    C4_Scenario
        => /\ Near(calc.basic_tax, 4407, 0)
           /\ Near(calc.cantonal_tax, 5138, 42)
           /\ Near(calc.church_tax, 25, 69)
           /\ Near(calc.federal, 1704, 75)
           /\ Near(calc.total_tax, 6868, 86)

\* C4, amended: for taxable income 80000 in Zurich City the estimate is
\* basic 4407.00, cantonal+communal 5139.44, church 25.70, federal 1829.50
\* and total 6994.64, each within 0.01, and the saved estimate holds the
\* same amounts.
C4_Amended ==
    C4_Scenario
        => /\ Near(calc.basic_tax, 4407, 0)
           /\ Near(calc.cantonal_tax, 5139, 44)
           /\ Near(calc.church_tax, 25, 70)
           /\ Near(calc.federal, 1829, 50)
           /\ Near(calc.total_tax, 6994, 64)
           /\ estimate.basic_tax = calc.basic_tax
           /\ estimate.cantonal_tax = calc.cantonal_tax
           /\ estimate.federal = calc.federal
           /\ estimate.total_tax = calc.total_tax

C4_Witness == C4_Scenario /\ estimate.saved

AllZero(at) ==
    /\ at.zurich_basic_tax = FxZero
    /\ at.federal_tax = FxZero
    /\ at.estimate.basic_tax = FxZero
    /\ at.estimate.cantonal_tax = FxZero
    /\ at.estimate.church_tax = FxZero
    /\ at.estimate.federal = FxZero
    /\ at.estimate.total_tax = FxZero
    /\ at.total = FxZero

\* C5: for every taxable income <= 0 both bracket evaluators return 0 and
\* every component of the estimate (basic, cantonal, church, federal,
\* total) is 0.
C5_ZeroAtOrBelowZero ==
    TaxEvaluated
        => /\ (probe.ti1 <= 0 => AllZero(probe.at1))
           /\ (probe.ti2 <= 0 => AllZero(probe.at2))

C5_Witness ==
    /\ TaxEvaluated
    /\ probe.ti1 < 0
    /\ probe.ti2 = 0
    /\ AllZero(probe.at1)
    /\ AllZero(probe.at2)

OptimizerRan == opt.status \in {"too_many", "no_feasible", "ranked"}

RowsOf(o) == {o.df_sorted[i] : i \in 1..Len(o.df_sorted)}

C7_RankedByNetCost ==
    opt.status = "ranked"
        => /\ Len(opt.df_sorted) > 0
           /\ \A i \in 1..Len(opt.df_sorted), j \in 1..Len(opt.df_sorted) :
                 i < j => FxLeq(opt.df_sorted[i].Net_cost,
                                opt.df_sorted[j].Net_cost)
           /\ opt.best = opt.df_sorted[1]
           /\ \A row \in RowsOf(opt) : FxLeq(opt.best.Net_cost, row.Net_cost)

\* A ranking of candidates of different net costs with more than ten rows.
C7_Witness ==
    /\ opt.status = "ranked"
    /\ Len(opt.df_sorted) > opt.top_n
    /\ \E row \in RowsOf(opt) : FxLt(opt.best.Net_cost, row.Net_cost)

GuardEvaluated == probe.fn = "guard" /\ probe.done

\* The number of multiples of the step from 0 up to min(cap, budget), the
\* cap being the estimate's Pillar 3a room for "Pillar 3a" and absent for
\* the other channels.
DomainSize(est, cat, max_budget) ==
    Cardinality({k \in 0..(max_budget \div step) :
                    cat = "Pillar 3a"
                       => FxLeq(FxAdd(est.pillar3a_current, FxInt(k * step)),
                                est.pillar3a_cap)})

DomainProduct(est, ticked, max_budget) ==
    LET Size(cat) == IF cat \in ticked
                     THEN DomainSize(est, cat, max_budget) ELSE 1
    IN  Size("Pillar 3a") * Size("Pillar 2") * Size("Donations")
          * Size("Moving")

\* C8: when the product of the per-channel domain sizes exceeds 200,000
\* the search refuses to run, reports the overflow and produces no
\* candidates; when the product is at most 200,000, 200,000 included, the
\* search starts and is to enumerate the whole product.
C8_GuardAtCeiling ==
    GuardEvaluated
        => LET product == DomainProduct(probe.est, probe.ticked,
                                        probe.max_budget)
           IN  IF product > 200000
               THEN /\ probe.output.status = "too_many"
                    /\ probe.output.df_sorted = <<>>
               ELSE /\ probe.output.status = "search"
                    /\ probe.output.total_combinations = product

\* The check lets a search of exactly 200,000 combinations start.
C8_Witness ==
    /\ GuardEvaluated
    /\ DomainProduct(probe.est, probe.ticked, probe.max_budget) = 200000
    /\ probe.output.status = "search"
    /\ probe.output.total_combinations = 200000

\* C9: with maxBudget = 0, for every non-empty selection and every
\* baseline, every per-channel domain is {0}, every combination is
\* discarded and the result set is empty, reported as "no feasible
\* allocations found" and not as an error.
C9_ZeroBudgetEmpty ==
    (OptimizerRan /\ opt.max_budget = 0)
        => /\ opt.status = "no_feasible"
           /\ opt.df_sorted = <<>>
           /\ \A cat \in opt.ticked : DomainSize(estimate, cat, 0) = 1
           /\ alloc_ranges(estimate, selected(opt.ticked), 0)
                = [i \in 1..Cardinality(opt.ticked) |-> <<0>>]

C9_Witness ==
    /\ opt.status = "no_feasible"
    /\ opt.max_budget = 0
    /\ opt.ticked = Channels
    /\ FxLt(FxZero, estimate.taxable_income)

\* C10: the taxable income of a saved estimate is the manual override when
\* the override is > 0, and otherwise max(0, salary + otherIncome +
\* foreignIncome + benefits - totalDeductions); in both cases it is >= 0.
C10_TaxableIncome ==
    estimate.saved
        => LET income == FxInt(form.salary + form.other_income
                               + form.foreign_income + form.benefits)
               net    == FxSub(income, estimate.total_deductions)
           IN  /\ estimate.total_income = income
               /\ estimate.total_deductions = calc.total_deductions
               /\ estimate.taxable_income
                    = IF form.net_income_override > 0
                      THEN FxInt(form.net_income_override)
                      ELSE IF FxLt(net, FxZero) THEN FxZero ELSE net
               /\ FxLeq(FxZero, estimate.taxable_income)

\* An override that replaces a different computed value.
C10_Witness ==
    /\ estimate.saved
    /\ form.net_income_override > 0
    /\ estimate.taxable_income = FxInt(form.net_income_override)
    /\ FxLt(estimate.taxable_income,
            FxSub(estimate.total_income, estimate.total_deductions))

\* C11: the Pillar 3a amount counted is min(declared, cap), the cap being
\* 7056 for "Employee with pension fund" and otherwise 20% of salary +
\* otherIncome + foreignIncome, benefits left out; a declared amount above
\* the cap is reported and not refused, the estimate is saved with the
\* capped amount, and every saved estimate has
\* 0 <= pillar3a_current <= pillar3a_cap.
C11_Pillar3aCapped ==
    estimate.saved
        => LET gross    == form.salary + form.other_income
                             + form.foreign_income
               cap      == IF form.employment_type
                                = "Employee with pension fund"
                           THEN <<7056, 0>>
                           ELSE <<gross \div 5, (gross % 5) * (FxD \div 5)>>
               declared == <<form.pillar3a_current, 0>>
           IN  /\ estimate.pillar3a_cap = cap
               /\ estimate.pillar3a_current
                    = IF FxLt(cap, declared) THEN cap ELSE declared
               /\ FxLeq(FxZero, estimate.pillar3a_current)
               /\ FxLeq(estimate.pillar3a_current, estimate.pillar3a_cap)
               /\ calc.submitted
               /\ calc.pillar3a_warned <=> FxLt(cap, declared)

\* A declared amount above a 20% cap that has a fractional part, with
\* benefits received that the cap leaves out.
C11_Witness ==
    /\ estimate.saved
    /\ form.employment_type = SelfEmployed
    /\ form.benefits > 0
    /\ calc.pillar3a_warned
    /\ estimate.pillar3a_cap[2] > 0
    /\ estimate.pillar3a_current = estimate.pillar3a_cap
    /\ FxLt(estimate.pillar3a_current, FxInt(form.pillar3a_current))

\* The estimate a submit saves for the submitted form with one field set to
\* another amount.
OtherSubmission(field, amount) ==
    SavedEstimate([form EXCEPT ![field] = amount])

\* C12: private insurance premiums and rent paid are not deducted: with
\* home office "No" and no manual override, a submission that differs from
\* the submitted one only in the private insurance premiums, or only in
\* the rent paid, has the same total deductions and the same taxable
\* income.
C12_PremiumsAndRentNotDeducted ==
    (estimate.saved /\ form.home_office = "No"
                    /\ form.net_income_override = 0)
        => /\ \A amount \in {0, 300, 1200} :
                 LET other == OtherSubmission("private_insurance_premiums",
                                              amount)
                 IN  /\ other.total_deductions = estimate.total_deductions
                     /\ other.taxable_income = estimate.taxable_income
           /\ \A amount \in {0, 24000, 30000} :
                 LET other == OtherSubmission("rent_paid", amount)
                 IN  /\ other.total_deductions = estimate.total_deductions
                     /\ other.taxable_income = estimate.taxable_income

SearchRan == opt.status \in {"no_feasible", "ranked"}

\* The amount an allocation gives a channel, 0 for a channel it leaves out.
AmountOf(a, cat) == IF cat \in DOMAIN a THEN a[cat] ELSE 0

SumOf(a) ==
    AmountOf(a, "Pillar 3a") + AmountOf(a, "Pillar 2")
      + AmountOf(a, "Donations") + AmountOf(a, "Moving")

\* The assignments of amounts to the enabled channels with every amount a
\* multiple of the step in [0, min(channelCap, maxBudget)], channelCap being
\* pillar3a_cap - pillar3a_current for Pillar 3a and absent for the other
\* channels, and with a sum in (0, maxBudget].
FeasibleAllocations(est, ticked, max_budget) ==
    {a \in [ticked -> {k * step : k \in 0..(max_budget \div step)}] :
        /\ "Pillar 3a" \in ticked
              => FxLeq(FxInt(a["Pillar 3a"]),
                       FxSub(est.pillar3a_cap, est.pillar3a_current))
        /\ 0 < SumOf(a)
        /\ SumOf(a) <= max_budget}

C14_EstimateWrittenBySubmitOnly ==
    /\ [][ /\ estimate' # estimate
                 => /\ calc'.submitted
                    /\ estimate' = SavedEstimate(form')
           /\ OptimizerRan'
                 => /\ estimate.saved
                    /\ estimate' = estimate
                    /\ form' = form
         ]_vars
    /\ [](OptimizerRan
             => opt = OptimizerOutput(SavedEstimate(form), opt.ticked,
                                      opt.max_budget))

\* The optimizer has refused a search as too large, after a questionnaire
\* other than the default one was submitted, and the estimate is still
\* that of the submitted questionnaire.
C14_Witness ==
    /\ opt.status = "too_many"
    /\ ~calc.submitted
    /\ form # DefaultForm
    /\ estimate = SavedEstimate(form)

====
